---------------------------- MODULE Spec2Model ----------------------------
(***************************************************************************)
(* Model of the artist_data package: the Safe Accessor and Flattener of    *)
(* utils.py, the pagination loops and record builders of                   *)
(* extract/spotify_extract.py and extract/genius_extract.py, and the two   *)
(* fetch orchestrators.                                                    *)
(*                                                                         *)
(* Python values are tagged records, one field per Python type:            *)
(*   [none |-> TRUE]  [str |-> "s"]  [int |-> n]  [bool |-> b]             *)
(*   [list |-> <<v1, ...>>]  [dict |-> f]   (f a function on key strings)  *)
(* The outcome of a call is [ok |-> v] (returned v) or [raise |-> e]       *)
(* (raised e, e = [type |-> exception class, msg |-> its message]).        *)
(***************************************************************************)
EXTENDS Integers, Sequences, FiniteSets, TLC

VARIABLES
    pc,          \* position of the call under study
    data,        \* utils: the `data` argument of safe_get / extract_value
    key_path,    \* utils: the `key_path` argument of extract_value
    result,      \* outcome of the finished call ([ok |-> v] or [raise |-> e])
    d,           \* utils: the dictionary flat_nested_dictionary mutates
    parent_key,  \* utils: the `parent_key` argument of flat_nested_dictionary
    record,      \* the content of d when flat_nested_dictionary was called
    results,     \* spotify: the page held by a pagination loop (or None)
    albums,      \* spotify: the accumulator of get_artist_albums
    tracks,      \* spotify: the accumulator of get_album_tracks
    visited,     \* the pages the provider has returned to the running loop
    builder,     \* the record builder under study
    raw,         \* the raw provider response handed to the builder
    provided,    \* what the provider answers to the call the builder makes
    entry,       \* the function the caller invoked
    calls,       \* the provider calls made so far, each with whether it succeeded
    steps,       \* the steps of the orchestrator started so far
    artist,      \* what the provider's artist search returned
    artist_data, \* the artist record built from it
    artist_albums,          \* get_all_tracks_of_artist: albums
    album_idx,              \* get_all_tracks_of_artist: albums already visited
    all_tracks,             \* get_all_tracks_of_artist: all_tracks
    track_idx,              \* build_spotify_artist_tracks: tracks already processed
    spotify_artist_tracks   \* build_spotify_artist_tracks: spotify_artist_tracks

accessorVars == <<data, key_path>>
flattenVars == <<d, parent_key, record>>

pageVars == <<results, albums, tracks, visited>>

buildVars == <<builder, raw, provided>>

fetchVars ==
    <<entry, calls, steps, artist, artist_data, artist_albums, album_idx,
      all_tracks, track_idx, spotify_artist_tracks>>

vars == <<pc, result, accessorVars, flattenVars, pageVars, buildVars, fetchVars>>

\* the state of a variable the running specification does not use
Unused == [unused |-> TRUE]

AccessorUnused == data = Unused /\ key_path = Unused
FlattenUnused == d = Unused /\ parent_key = Unused /\ record = Unused
PageUnused == results = Unused /\ albums = Unused /\ tracks = Unused /\ visited = Unused
BuildUnused == builder = Unused /\ raw = Unused /\ provided = Unused
FetchUnused ==
    /\ entry = Unused /\ calls = Unused /\ steps = Unused
    /\ artist = Unused /\ artist_data = Unused
    /\ artist_albums = Unused /\ album_idx = Unused /\ all_tracks = Unused
    /\ track_idx = Unused /\ spotify_artist_tracks = Unused

-----------------------------------------------------------------------------
(* Python values *)

PyNone == [none |-> TRUE]
PyStr(s) == [str |-> s]
PyInt(n) == [int |-> n]
PyBool(b) == [bool |-> b]
PyList(s) == [list |-> s]
PyDict(f) == [dict |-> f]
EmptyDict == PyDict(<<>>)

IsNone(v) == DOMAIN v = {"none"}
IsStr(v) == DOMAIN v = {"str"}
IsInt(v) == DOMAIN v = {"int"}
IsBool(v) == DOMAIN v = {"bool"}
IsList(v) == DOMAIN v = {"list"}
IsDict(v) == DOMAIN v = {"dict"}

\* bool(v): Python truthiness, as tested by `if value` / `value if value else`
Truthy(v) ==
    IF IsNone(v) THEN FALSE
    ELSE IF IsStr(v) THEN v.str # ""
    ELSE IF IsInt(v) THEN v.int # 0
    ELSE IF IsBool(v) THEN v.bool
    ELSE IF IsList(v) THEN Len(v.list) > 0
    ELSE DOMAIN v.dict # {}

Ret(v) == [ok |-> v]
Exc(t, m) == [type |-> t, msg |-> m]
\* an exception raised while handling e: Python records e as its __context__
Wrap(t, prefix, e) == [type |-> t, msg |-> <<prefix>> \o e.msg, context |-> e]
Raise(e) == [raise |-> e]
Returned(r) == DOMAIN r = {"ok"}
Raised(r) == DOMAIN r = {"raise"}

-----------------------------------------------------------------------------
(* utils.py *)

\* artist_data.setup.UNKNOWN_VALUE, documented in utils.py as 'UNKNOWN'
UNKNOWN_VALUE == PyStr("UNKNOWN")

\* data.get(key, default): AttributeError when data has no .get
safe_get(dd, key, default) ==
    IF IsDict(dd)
    THEN Ret(IF key \in DOMAIN dd.dict THEN dd.dict[key] ELSE default)
    ELSE Raise(Exc("AttributeError", <<"object has no attribute get">>))

\* the for loop of extract_value from position i with the current `value`:
\* the value the loop ends with, or the exception that leaves it
RECURSIVE extract_loop(_, _, _, _)
extract_loop(value, path, i, unknown) ==
    IF i > Len(path) THEN Ret(value)
    ELSE LET got == safe_get(value, path[i], unknown) IN
         IF Raised(got) THEN got
         ELSE IF got.ok = unknown THEN got              \* break
         ELSE extract_loop(got.ok, path, i + 1, unknown)

extract_value_NoFalsyCheck(dd, path, unknown) ==
    LET walked == extract_loop(dd, path, 1, unknown) IN
    IF Raised(walked) THEN Ret(unknown) ELSE Ret(walked.ok)

extract_value_NoExcept(dd, path, unknown) ==
    LET walked == extract_loop(dd, path, 1, unknown) IN
    IF Raised(walked) THEN walked
    ELSE Ret(IF Truthy(walked.ok) THEN walked.ok ELSE unknown)

extract_value(dd, path, unknown) ==
    LET walked == extract_loop(dd, path, 1, unknown) IN
    IF Raised(walked)
    THEN IF walked.raise.type = "AttributeError"
         THEN Ret(unknown)                              \* except AttributeError
         ELSE walked
    ELSE Ret(IF Truthy(walked.ok) THEN walked.ok ELSE unknown)

safe_extract(dd, path, unknown) == extract_value(dd, path, unknown)

-----------------------------------------------------------------------------
(* Inputs of the Safe Accessor *)

MaxPathLen == 2

Keys == {"a", "b"}

Scalars ==
    {PyNone, PyStr(""), PyStr("v"), PyInt(0), PyBool(FALSE), PyList(<<>>), UNKNOWN_VALUE}

DictsOver(K, V) == UNION {[S -> V] : S \in SUBSET K}

LeafDicts == {PyDict(f) : f \in DictsOver(Keys, Scalars)}

NestedDicts == {PyDict(f) : f \in DictsOver(Keys, Scalars \cup LeafDicts)}

AccessorData == Scalars \cup NestedDicts

KeyPaths == UNION {[1..n -> Keys] : n \in 0..MaxPathLen}

AccessorInit ==
    /\ pc = "start"
    /\ data \in AccessorData
    /\ key_path \in KeyPaths
    /\ result = Unused
    /\ FlattenUnused /\ PageUnused /\ BuildUnused /\ FetchUnused

\* safe_get(data, key)
CallSafeGet ==
    /\ pc = "start"
    /\ \E key \in Keys : result' = safe_get(data, key, UNKNOWN_VALUE)
    /\ pc' = "safe_get"
    /\ UNCHANGED <<accessorVars, flattenVars, pageVars, buildVars, fetchVars>>

\* extract_value(data, key_path)
CallExtractValue ==
    /\ pc = "start"
    /\ result' = extract_value(data, key_path, UNKNOWN_VALUE)
    /\ pc' = "extract_value"
    /\ UNCHANGED <<accessorVars, flattenVars, pageVars, buildVars, fetchVars>>

\* safe_extract(data, key_path)
CallSafeExtract ==
    /\ pc = "start"
    /\ result' = safe_extract(data, key_path, UNKNOWN_VALUE)
    /\ pc' = "safe_extract"
    /\ UNCHANGED <<accessorVars, flattenVars, pageVars, buildVars, fetchVars>>

AccessorNext == CallSafeGet \/ CallExtractValue \/ CallSafeExtract

SpecAccessor == AccessorInit /\ [][AccessorNext]_vars

-----------------------------------------------------------------------------
(* Claims about the Safe Accessor *)

\* the value reached after the first n keys of path p, when they are present
RECURSIVE Resolved(_, _, _)
Resolved(m, p, n) == IF n = 0 THEN m ELSE Resolved(m, p, n - 1).dict[p[n]]

\* the first n keys of p are present: each is a key of the mapping before it
RECURSIVE PresentUpTo(_, _, _)
PresentUpTo(m, p, n) ==
    \/ n = 0
    \/ /\ PresentUpTo(m, p, n - 1)
       /\ IsDict(Resolved(m, p, n - 1))
       /\ p[n] \in DOMAIN Resolved(m, p, n - 1).dict

PathPresent(m, p) == PresentUpTo(m, p, Len(p))

ExtractCalled == pc \in {"extract_value", "safe_extract"}

\* C4: for a mapping m and a key path p, extract_value(m, p) with the default
\* sentinel returns the resolved value when every key of p is present and the
\* final value is truthy, and the sentinel in every other case (a missing key,
\* a non-mapping or falsy intermediate value, a falsy final value).
C4_ExtractSentinelOrTruthy ==
    (ExtractCalled /\ IsDict(data)) =>
        result = Ret(IF /\ PathPresent(data, key_path)
                        /\ Truthy(Resolved(data, key_path, Len(key_path)))
                     THEN Resolved(data, key_path, Len(key_path))
                     ELSE UNKNOWN_VALUE)

\* a two-key path whose keys are both present and end on the falsy value 0:
\* extract_value answered with the sentinel
C4_Witness ==
    /\ pc = "extract_value"
    /\ IsDict(data)
    /\ Len(key_path) = 2
    /\ PathPresent(data, key_path)
    /\ Resolved(data, key_path, 2) = PyInt(0)
    /\ result = Ret(UNKNOWN_VALUE)

\* C5 as stated: safe_get and extract_value/safe_extract return a value for
\* every input, mapping or not; no call raises.
C5_AccessorNeverRaises == (pc # "start") => Returned(result)

\* C5 amended: extract_value/safe_extract return a value for every input,
\* mapping or not; safe_get returns a value exactly when its input is a
\* mapping and raises AttributeError for every non-mapping input.
C5_ExtractNeverRaisesSafeGetOnMappings ==
    /\ ExtractCalled => Returned(result)
    /\ (pc = "safe_get" /\ IsDict(data)) => Returned(result)
    /\ (pc = "safe_get" /\ ~IsDict(data)) =>
           (Raised(result) /\ result.raise.type = "AttributeError")

\* extract_value walked a non-empty path from a non-mapping input and
\* answered with the sentinel
C5_Witness ==
    /\ pc = "extract_value"
    /\ ~IsDict(data)
    /\ Len(key_path) > 0
    /\ result = Ret(UNKNOWN_VALUE)

-----------------------------------------------------------------------------
(* utils.py: flat_nested_dictionary *)

\* d.update(n): every entry of n set in d, n's value replacing d's
dict_update(dd, n) ==
    PyDict([k \in DOMAIN dd.dict \cup DOMAIN n.dict |->
               IF k \in DOMAIN n.dict THEN n.dict[k] ELSE dd.dict[k]])

\* d.pop(key, None): key removed when present
dict_pop(dd, key) == PyDict([k \in DOMAIN dd.dict \ {key} |-> dd.dict[k]])

flat_nested_dictionary_PopFirst(dd, key) ==
    LET nested_dict == safe_get(dd, key, EmptyDict) IN
    IF Raised(nested_dict) THEN nested_dict
    ELSE Ret(IF IsDict(nested_dict.ok)
             THEN dict_update(dict_pop(dd, key), nested_dict.ok)
             ELSE dict_pop(dd, key))

\* the content of d when flat_nested_dictionary(d, key) returns (it returns d)
flat_nested_dictionary(dd, key) ==
    LET nested_dict == safe_get(dd, key, EmptyDict) IN
    IF Raised(nested_dict) THEN nested_dict
    ELSE Ret(dict_pop(IF IsDict(nested_dict.ok)
                      THEN dict_update(dd, nested_dict.ok)
                      ELSE dd,
                      key))

FlatKeys == {"x", "a", "b"}
NestedKeys == {"x", "a", "c"}
FlatScalars == {PyInt(1), PyStr("v")}
NestedScalars == {PyInt(2), PyStr("n")}

FlatNested == {PyDict(f) : f \in DictsOver(NestedKeys, NestedScalars)}

FlatRecords == {PyDict(f) : f \in DictsOver(FlatKeys, FlatScalars \cup FlatNested)}

FlattenInit ==
    /\ pc = "start"
    /\ d \in FlatRecords
    /\ parent_key \in {"x", "a"}
    /\ record = d
    /\ result = Unused
    /\ AccessorUnused /\ PageUnused /\ BuildUnused /\ FetchUnused

\* flat_nested_dictionary(d, parent_key): d is mutated in place and returned
CallFlatNestedDictionary ==
    /\ pc = "start"
    /\ result' = flat_nested_dictionary(d, parent_key)
    /\ d' = IF Returned(result') THEN result'.ok ELSE d
    /\ pc' = "flat_nested_dictionary"
    /\ UNCHANGED <<parent_key, record, accessorVars, pageVars, buildVars, fetchVars>>

FlattenNext == CallFlatNestedDictionary

SpecFlatten == FlattenInit /\ [][FlattenNext]_vars

\* the record the Flattener is specified to produce from r and key k
FlattenReference(r, k) ==
    LET n == IF k \in DOMAIN r.dict /\ IsDict(r.dict[k]) THEN r.dict[k].dict ELSE <<>>
    IN PyDict([x \in (DOMAIN r.dict \cup DOMAIN n) \ {k} |->
                  IF x \in DOMAIN n THEN n[x] ELSE r.dict[x]])

\* C6: flat_nested_dictionary(r, k) returns the record it mutated, whose content
\* is r overridden by the entries of the mapping r[k] (when r[k] is a mapping)
\* with k removed; k is absent from the result in every case, also when the
\* nested mapping has an entry named k.
C6_FlattenMatchesReference ==
    (pc = "flat_nested_dictionary") =>
        /\ result = Ret(d)
        /\ d = FlattenReference(record, parent_key)
        /\ parent_key \notin DOMAIN d.dict

\* the nested mapping under k itself had an entry named k and an entry that
\* overwrote a top-level one
C6_Witness ==
    /\ pc = "flat_nested_dictionary"
    /\ parent_key \in DOMAIN record.dict
    /\ IsDict(record.dict[parent_key])
    /\ parent_key \in DOMAIN record.dict[parent_key].dict
    /\ \E k \in DOMAIN record.dict \ {parent_key} :
          /\ k \in DOMAIN record.dict[parent_key].dict
          /\ d.dict[k] = record.dict[parent_key].dict[k]
          /\ d.dict[k] # record.dict[k]
    /\ parent_key \notin DOMAIN d.dict

-----------------------------------------------------------------------------
(* Python operations the record builders use *)

\* the first character of a string; the strings indexed or iterated in this
\* model are the sentinel and one-character strings
StrHead(s) == IF s = "UNKNOWN" THEN "U" ELSE s

\* v[0]
Index0(v) ==
    IF IsList(v)
    THEN IF Len(v.list) > 0 THEN Ret(v.list[1])
         ELSE Raise(Exc("IndexError", <<"list index out of range">>))
    ELSE IF IsStr(v)
    THEN IF v.str # "" THEN Ret(PyStr(StrHead(v.str)))
         ELSE Raise(Exc("IndexError", <<"string index out of range">>))
    ELSE IF IsDict(v) THEN Raise(Exc("KeyError", <<"0">>))
    ELSE Raise(Exc("TypeError", <<"object is not subscriptable">>))

\* the elements `for x in v` visits. A list gives its elements; a dict gives
\* its keys and a str its characters, of which the first is kept (a str, on
\* which the loop bodies modelled here raise before a second is visited)
PyIter(v) ==
    IF IsList(v) THEN Ret(v.list)
    ELSE IF IsStr(v)
    THEN Ret(IF v.str = "" THEN <<>> ELSE <<PyStr(StrHead(v.str))>>)
    ELSE IF IsDict(v)
    THEN Ret(IF DOMAIN v.dict = {} THEN <<>>
             ELSE <<PyStr(CHOOSE k \in DOMAIN v.dict : TRUE)>>)
    ELSE Raise(Exc("TypeError", <<"object is not iterable">>))

\* safe_get(x, 'name') for every x of items, in order: the list of names, or
\* the exception of the first x that is no mapping
RECURSIVE names_of(_, _)
names_of(items, i) ==
    IF i > Len(items) THEN Ret(<<>>)
    ELSE LET got == safe_get(items[i], "name", UNKNOWN_VALUE) IN
         IF Raised(got) THEN got
         ELSE LET rest == names_of(items, i + 1) IN
              IF Raised(rest) THEN rest ELSE Ret(<<got.ok>> \o rest.ok)

\* the field of a mapping, or the default (safe_get on a mapping)
Field(dd, key) == safe_get(dd, key, UNKNOWN_VALUE).ok
FieldOr(dd, key, default) == safe_get(dd, key, default).ok

-----------------------------------------------------------------------------
(* genius_extract.py: the record builders *)

\* raise TrackDataError(f"Error occurred while building track data: {str(e)}")
track_data_error(e) ==
    Raise(Wrap("TrackDataError", "Error occurred while building track data", e))

\* raise TrackDataError(f"Error occurred while building artist data: {str(e)}")
artist_data_error(e) ==
    Raise(Wrap("TrackDataError", "Error occurred while building artist data", e))

build_genius_artist_track(genius_artist_track) ==
    IF genius_artist_track = EmptyDict THEN Ret(PyNone)     \* a bare `return`
    ELSE
    LET t == genius_artist_track
        primary_artist == safe_extract(t, <<"primary_artist", "name">>, UNKNOWN_VALUE).ok
        primary_artists == safe_get(t, "primary_artists", PyList(<<>>))
    IN
    IF Raised(primary_artists) THEN track_data_error(primary_artists.raise)
    ELSE
    LET listed == PyIter(primary_artists.ok)
        names == IF Raised(listed) THEN listed ELSE names_of(listed.ok, 1)
        Other(n) == n # primary_artist
    IN
    IF Raised(names) THEN track_data_error(names.raise)
    ELSE Ret(PyDict([
        genius_track_id |-> Field(t, "id"),
        genius_title |-> Field(t, "title"),
        genius_release_date |-> Field(t, "release_date"),
        genius_album |-> Field(t, "album"),
        genius_track_api_path |-> Field(t, "api_path"),
        genius_pageviews |-> safe_extract(t, <<"stats", "pageviews">>, UNKNOWN_VALUE).ok,
        genius_track_url |-> Field(t, "url"),
        genius_track_image_url |-> Field(t, "song_art_image_url"),
        genius_track_language |-> Field(t, "language"),
        genius_track_description |-> safe_extract(t, <<"description", "plain">>, UNKNOWN_VALUE).ok,
        genius_lyrics |-> Field(t, "lyrics"),
        genius_lyrics_is_complete |-> Field(t, "lyrics_state"),
        primary_artist |-> primary_artist,
        primary_artists |-> PyList(SelectSeq(names.ok, Other)),
        genius_featured_artists |-> FieldOr(t, "featured_artists", PyList(<<>>))]))

\* [build_genius_artist_track(track) for track in songs]: the list of track
\* records, or the exception of the first track whose build raises
RECURSIVE genius_tracks_of(_, _)
genius_tracks_of(songs, i) ==
    IF i > Len(songs) THEN Ret(<<>>)
    ELSE LET built == build_genius_artist_track(songs[i]) IN
         IF Raised(built) THEN built
         ELSE LET rest == genius_tracks_of(songs, i + 1) IN
              IF Raised(rest) THEN rest ELSE Ret(<<built.ok>> \o rest.ok)

build_genius_artist_data(genius_artist_search_result) ==
    LET a == genius_artist_search_result
        first == safe_get(a, "id", UNKNOWN_VALUE)
    IN
    IF Raised(first) THEN artist_data_error(first.raise)
    ELSE
    LET songs == PyIter(FieldOr(a, "songs", EmptyDict))
        built == IF Raised(songs) THEN songs ELSE genius_tracks_of(songs.ok, 1)
    IN
    IF Raised(built) THEN artist_data_error(built.raise)
    ELSE Ret(PyDict([
        genius_artist_id |-> Field(a, "id"),
        genius_artist_name |-> Field(a, "name"),
        genius_alternate_names |-> FieldOr(a, "alternate_names", PyList(<<>>)),
        genius_artist_api_path |-> Field(a, "api_path"),
        genius_artist_url |-> Field(a, "url"),
        genius_artist_image_url |-> Field(a, "image_url"),
        genius_artist_description |-> safe_extract(a, <<"description", "plain">>, UNKNOWN_VALUE).ok,
        genius_twitter_name |-> Field(a, "twitter_name"),
        genius_facebook_name |-> Field(a, "facebook_name"),
        genius_instagram_name |-> Field(a, "instagram_name"),
        genius_is_verified |-> Field(a, "is_verified"),
        genius_tracks |-> PyList(built.ok)]))

-----------------------------------------------------------------------------
(* spotify_extract.py: the record builders *)

\* the entries of build_spotify_artist_data evaluated before the provider is
\* asked for the related artists: the image url, or the exception raised
spotify_artist_image_url(a) ==
    LET images == safe_get(a, "images", UNKNOWN_VALUE) IN
    IF Raised(images) THEN images
    ELSE LET image == Index0(images.ok) IN
         IF Raised(image) THEN image
         ELSE safe_get(image.ok, "url", UNKNOWN_VALUE)

\* build_spotify_artist_data, `related` being the outcome of
\* spotify_client.artist_related_artists(id)
build_spotify_artist_data(spotify_artist_search_result, related) ==
    LET a == spotify_artist_search_result
        image_url == spotify_artist_image_url(a)
    IN
    IF Raised(image_url) THEN image_url
    ELSE IF Raised(related) THEN related
    ELSE
    LET artists == safe_get(related.ok, "artists", UNKNOWN_VALUE)
        listed == IF Raised(artists) THEN artists ELSE PyIter(artists.ok)
        names == IF Raised(listed) THEN listed ELSE names_of(listed.ok, 1)
    IN
    IF Raised(names) THEN names
    ELSE Ret(PyDict([
        spotify_artist_id |-> Field(a, "id"),
        spotify_artist_name |-> Field(a, "name"),
        spotify_artist_uri_path |-> Field(a, "uri"),
        spotify_artist_url |-> Field(a, "href"),
        spotify_artist_image_url |-> image_url.ok,
        spotify_artist_n_followers |-> safe_extract(a, <<"followers", "total">>, UNKNOWN_VALUE).ok,
        spotify_popularity |-> Field(a, "popularity"),
        spotify_artist_genres |-> Field(a, "genres"),
        spotify_related_artists |-> PyList(names.ok)]))

\* whether build_spotify_artist_tracks asks the provider for the audio
\* features of a track
wants_audio_features(track) ==
    LET id == safe_get(track, "id", UNKNOWN_VALUE) IN
    Returned(id) /\ id.ok # UNKNOWN_VALUE

spotify_track_entry_IgnoreFailure(spotify_artist_id, track, features) ==
    Ret(PyDict([
        spotify_artist_id |-> spotify_artist_id,
        spotify_track_id |-> Field(track, "id"),
        spotify_track_name |-> Field(track, "name"),
        spotify_track_uri |-> Field(track, "uri"),
        spotify_track_url |-> Field(track, "href"),
        track_number |-> Field(track, "track_number"),
        spotify_album_id |-> Field(track, "spotify_album_id"),
        track_audio_features_spotify |->
            IF Returned(features) /\ Returned(Index0(features.ok))
            THEN Index0(features.ok).ok ELSE EmptyDict]))

\* the dictionary build_spotify_artist_tracks appends for one track,
\* `features` being the outcome of spotify_client.audio_features(id)
spotify_track_entry(spotify_artist_id, track, features) ==
    LET id == safe_get(track, "id", UNKNOWN_VALUE) IN
    IF Raised(id) THEN id
    ELSE
    LET audio == IF id.ok # UNKNOWN_VALUE
                 THEN IF Raised(features) THEN features ELSE Index0(features.ok)
                 ELSE Ret(EmptyDict)
    IN
    IF Raised(audio) THEN audio
    ELSE Ret(PyDict([
        spotify_artist_id |-> spotify_artist_id,
        spotify_track_id |-> id.ok,
        spotify_track_name |-> Field(track, "name"),
        spotify_track_uri |-> Field(track, "uri"),
        spotify_track_url |-> Field(track, "href"),
        track_number |-> Field(track, "track_number"),
        spotify_album_id |-> Field(track, "spotify_album_id"),
        track_audio_features_spotify |-> audio.ok]))

\* the record of one track as build_spotify_artist_tracks returns it: the
\* entry with its audio features flattened into it
spotify_track_record(spotify_artist_id, track, features) ==
    LET appended == spotify_track_entry(spotify_artist_id, track, features) IN
    IF Raised(appended) THEN appended
    ELSE flat_nested_dictionary(appended.ok, "track_audio_features_spotify")

-----------------------------------------------------------------------------
(* Raw responses handed to the record builders *)

MaxArtists == 3

\* a key the raw response does not have
Absent == [absent |-> TRUE]

\* the mapping that holds the entries of `choice` that are not Absent
Present(choice) ==
    PyDict([k \in {x \in DOMAIN choice : choice[x] # Absent} |-> choice[k]])

ArtistEntries ==
    {PyDict([name |-> PyStr("Test")]), PyDict([name |-> PyStr("Feat")]), EmptyDict}

PrimaryArtistLists ==
    {PyList(l) : l \in UNION {[1..n -> ArtistEntries] : n \in 0..MaxArtists}}

RawGeniusTracks ==
    {Present(c) : c \in
        [id : {Absent, PyInt(10)},
         title : {Absent, PyStr("A")},
         primary_artist : {Absent, EmptyDict, PyDict([name |-> PyStr("Test")]),
                           PyDict([name |-> PyStr("Feat")])},
         primary_artists : {Absent} \cup PrimaryArtistLists,
         stats : {Absent, PyDict([pageviews |-> PyInt(5)])}]}

RawGeniusSongs ==
    {EmptyDict,
     PyDict([id |-> PyInt(10), title |-> PyStr("A")]),
     PyDict([id |-> PyInt(11),
             primary_artist |-> PyDict([name |-> PyStr("Test")]),
             primary_artists |-> PyList(<<PyDict([name |-> PyStr("Test")]),
                                          PyDict([name |-> PyStr("Feat")])>>)])}

RawGeniusArtists ==
    {Present(c) : c \in
        [id : {Absent, PyInt(1)},
         name : {Absent, PyStr("Test")},
         description : {Absent, EmptyDict, PyDict([plain |-> PyStr("d")])},
         songs : {Absent} \cup
                 {PyList(l) : l \in UNION {[1..n -> RawGeniusSongs] : n \in 0..2}}]}

RawSpotifyArtists ==
    {Present(c) : c \in
        [id : {Absent, PyStr("sp1")},
         name : {Absent, PyStr("Test")},
         images : {Absent, PyList(<<>>), PyList(<<EmptyDict>>),
                   PyList(<<PyDict([url |-> PyStr("u")])>>)},
         followers : {Absent, EmptyDict, PyDict([total |-> PyInt(5)])},
         genres : {Absent, PyList(<<PyStr("g")>>)}]}

\* answers of spotify_client.artist_related_artists
RelatedArtistsResponses ==
    {EmptyDict,
     PyDict([artists |-> PyList(<<>>)]),
     PyDict([artists |-> PyList(<<PyDict([name |-> PyStr("R")]), EmptyDict>>)])}

RawSpotifyTracks ==
    {Present(c) : c \in
        [id : {Absent, PyStr("t1")},
         name : {Absent, PyStr("A")},
         track_number : {Absent, PyInt(1)},
         spotify_album_id : {Absent, PyStr("id1")}]}

\* answers of spotify_client.audio_features
AudioFeaturesResponses ==
    {PyList(<<PyNone>>), PyList(<<EmptyDict>>),
     PyList(<<PyDict([id |-> PyStr("t1"), tempo |-> PyInt(120)])>>)}

BuildInit ==
    /\ pc = "start"
    /\ \/ builder = "build_spotify_artist_data"
          /\ raw \in RawSpotifyArtists /\ provided \in RelatedArtistsResponses
       \/ builder = "build_genius_artist_track"
          /\ raw \in RawGeniusTracks /\ provided = Unused
       \/ builder = "build_genius_artist_data"
          /\ raw \in RawGeniusArtists /\ provided = Unused
       \/ builder = "build_spotify_artist_tracks"
          /\ raw \in RawSpotifyTracks /\ provided \in AudioFeaturesResponses
    /\ result = Unused
    /\ AccessorUnused /\ FlattenUnused /\ PageUnused /\ FetchUnused

BuildGeniusArtistTrack ==
    /\ pc = "start"
    /\ builder = "build_genius_artist_track"
    /\ result' = build_genius_artist_track(raw)
    /\ pc' = "built"
    /\ UNCHANGED <<accessorVars, flattenVars, pageVars, buildVars, fetchVars>>

BuildGeniusArtistData ==
    /\ pc = "start"
    /\ builder = "build_genius_artist_data"
    /\ result' = build_genius_artist_data(raw)
    /\ pc' = "built"
    /\ UNCHANGED <<accessorVars, flattenVars, pageVars, buildVars, fetchVars>>

BuildSpotifyArtistData ==
    /\ pc = "start"
    /\ builder = "build_spotify_artist_data"
    /\ result' = build_spotify_artist_data(raw, Ret(provided))
    /\ pc' = "built"
    /\ UNCHANGED <<accessorVars, flattenVars, pageVars, buildVars, fetchVars>>

\* build_spotify_artist_tracks on one raw track: the entry of the loop body
\* and its flattening
BuildSpotifyTrackRecord ==
    /\ pc = "start"
    /\ builder = "build_spotify_artist_tracks"
    /\ result' = spotify_track_record(PyStr("sp1"), raw, Ret(provided))
    /\ pc' = "built"
    /\ UNCHANGED <<accessorVars, flattenVars, pageVars, buildVars, fetchVars>>

BuildNext ==
    \/ BuildGeniusArtistTrack \/ BuildGeniusArtistData
    \/ BuildSpotifyArtistData \/ BuildSpotifyTrackRecord

SpecBuild == BuildInit /\ [][BuildNext]_vars

-----------------------------------------------------------------------------
(* Claims about the record builders *)

Src(field, path, default) == [field |-> field, path |-> path, default |-> default]

\* for each builder: the raw source of its output fields and the value a field
\* is declared to hold when its source is missing
FieldSources(b) ==
    IF b = "build_genius_artist_track" THEN
        {Src("genius_track_id", <<"id">>, UNKNOWN_VALUE),
         Src("genius_title", <<"title">>, UNKNOWN_VALUE),
         Src("genius_release_date", <<"release_date">>, UNKNOWN_VALUE),
         Src("genius_album", <<"album">>, UNKNOWN_VALUE),
         Src("genius_pageviews", <<"stats", "pageviews">>, UNKNOWN_VALUE),
         Src("genius_lyrics", <<"lyrics">>, UNKNOWN_VALUE),
         Src("primary_artist", <<"primary_artist", "name">>, UNKNOWN_VALUE),
         Src("primary_artists", <<"primary_artists">>, PyList(<<>>)),
         Src("genius_featured_artists", <<"featured_artists">>, PyList(<<>>))}
    ELSE IF b = "build_genius_artist_data" THEN
        {Src("genius_artist_id", <<"id">>, UNKNOWN_VALUE),
         Src("genius_artist_name", <<"name">>, UNKNOWN_VALUE),
         Src("genius_alternate_names", <<"alternate_names">>, PyList(<<>>)),
         Src("genius_artist_description", <<"description", "plain">>, UNKNOWN_VALUE),
         Src("genius_tracks", <<"songs">>, PyList(<<>>))}
    ELSE IF b = "build_spotify_artist_data" THEN
        {Src("spotify_artist_id", <<"id">>, UNKNOWN_VALUE),
         Src("spotify_artist_name", <<"name">>, UNKNOWN_VALUE),
         Src("spotify_artist_image_url", <<"images">>, UNKNOWN_VALUE),
         Src("spotify_artist_n_followers", <<"followers", "total">>, UNKNOWN_VALUE),
         Src("spotify_artist_genres", <<"genres">>, UNKNOWN_VALUE)}
    ELSE
        {Src("spotify_track_id", <<"id">>, UNKNOWN_VALUE),
         Src("spotify_track_name", <<"name">>, UNKNOWN_VALUE),
         Src("track_number", <<"track_number">>, UNKNOWN_VALUE),
         Src("spotify_album_id", <<"spotify_album_id">>, UNKNOWN_VALUE)}

\* the raw response is a well-formed response with keys absent: nothing it
\* holds is malformed (an image list, when present, has an image)
MissingFieldsOnly ==
    (builder = "build_spotify_artist_data" /\ "images" \in DOMAIN raw.dict)
        => Len(raw.dict.images.list) > 0

\* C9: every record builder tolerates missing fields: on a raw response that is
\* a mapping with any subset of the expected keys absent it does not raise and
\* returns a record in which each field whose source is missing holds the
\* sentinel (or its declared default).
C9_BuildersTolerateMissingFields ==
    (pc = "built" /\ MissingFieldsOnly) =>
        /\ Returned(result)
        /\ IsDict(result.ok)
        /\ \A s \in FieldSources(builder) :
              ~PathPresent(raw, s.path) => result.ok.dict[s.field] = s.default

\* the names of the listed primary artists of a raw track, in order
ListedNames(track) ==
    IF "primary_artists" \in DOMAIN track.dict
    THEN [i \in 1..Len(track.dict.primary_artists.list) |->
            LET a == track.dict.primary_artists.list[i] IN
            IF "name" \in DOMAIN a.dict THEN a.dict.name ELSE UNKNOWN_VALUE]
    ELSE <<>>

\* the sequence s without its entries equal to x
RECURSIVE Without(_, _)
Without(s, x) ==
    IF s = <<>> THEN <<>>
    ELSE IF Head(s) = x THEN Without(Tail(s), x)
    ELSE <<Head(s)>> \o Without(Tail(s), x)

\* C10: for every raw Genius track, build_genius_artist_track yields a record
\* whose primary_artist is the nested extraction of the primary artist's name
\* and whose primary_artists is the list of the names of all listed primary
\* artists, in order, without the entries equal to primary_artist (other
\* repeated names kept).
C10_PrimaryArtistsExcludePrimary ==
    (pc = "built" /\ builder = "build_genius_artist_track") =>
        /\ Returned(result)
        /\ IsDict(result.ok)
        /\ result.ok.dict.primary_artist =
              extract_value(raw, <<"primary_artist", "name">>, UNKNOWN_VALUE).ok
        /\ result.ok.dict.primary_artists =
              PyList(Without(ListedNames(raw), result.ok.dict.primary_artist))

\* C10 on the tracks that are not the empty mapping
C10_HoldsOnNonEmptyTracks ==
    (pc = "built" /\ builder = "build_genius_artist_track" /\ raw # EmptyDict) =>
        /\ Returned(result)
        /\ IsDict(result.ok)
        /\ result.ok.dict.primary_artist =
              extract_value(raw, <<"primary_artist", "name">>, UNKNOWN_VALUE).ok
        /\ result.ok.dict.primary_artists =
              PyList(Without(ListedNames(raw), result.ok.dict.primary_artist))

\* C9 on the Genius builders and the Spotify track record, off the empty track
C9_HoldsOffImagesAndEmptyTrack ==
    (/\ pc = "built"
     /\ builder # "build_spotify_artist_data"
     /\ ~(builder = "build_genius_artist_track" /\ raw = EmptyDict)) =>
        /\ Returned(result)
        /\ IsDict(result.ok)
        /\ \A s \in FieldSources(builder) :
              ~PathPresent(raw, s.path) => result.ok.dict[s.field] = s.default

-----------------------------------------------------------------------------
(* The provider clients (external collaborators) *)

MaxPages == 3
MaxPageLen == 2
FetchMaxPages == 2

\* the queried artist name
ArtistName == "Test"

\* the failure of a provider call, raised by the client library
ClientError == Exc("ConnectionError", <<"connection failed">>)

\* whether the pagination loops run inside fetch_spotify_artist_data
InFetch == entry = "fetch_spotify_artist_data"

ItemIds == {"id1", "id2"}

\* an item of a collection page: it carries its id and, standing for the rest
\* of its content, the page that delivered it and its place there
Item(id, n, i) == PyDict([id |-> PyStr(id), page |-> PyInt(n), pos |-> PyInt(i)])

\* the items a provider page may hold when a pagination loop is called alone
PageItems(n) ==
    {[i \in 1..Len(ids) |-> Item(ids[i], n, i)] :
        ids \in UNION {[1..k -> ItemIds] : k \in 0..MaxPageLen}}

\* the items of an album page and of a track page during a whole fetch: at
\* most one per page, with or without an id
FetchAlbumItems ==
    {<<>>, <<PyDict([id |-> PyStr("id1")])>>, <<PyDict([id |-> PyStr("id2")])>>,
     <<PyDict([name |-> PyStr("A")])>>}

FetchTrackItems ==
    {<<>>, <<PyDict([id |-> PyStr("t1")])>>, <<PyDict([name |-> PyStr("A")])>>}

AlbumPageItems(n) == IF InFetch THEN FetchAlbumItems ELSE PageItems(n)
TrackPageItems(n) == IF InFetch THEN FetchTrackItems ELSE PageItems(n)
PageLimit == IF InFetch THEN FetchMaxPages ELSE MaxPages

\* a page of a collection: its items and whether it has a next-page marker
PagesOf(items) == [items : items, next : BOOLEAN]

\* spotify_client.artist_albums / album_tracks: a first page, nothing, or a failure
FirstPageOutcomes(items) ==
    {Raise(ClientError), Ret(PyNone)} \cup {Ret(p) : p \in PagesOf(items)}

\* spotify_client.next(results) after n pages: a further page, None, or a
\* failure; the provider's chain of pages is finite
NextPageOutcomes(items, n) ==
    {Raise(ClientError), Ret(PyNone)} \cup
    (IF n < PageLimit THEN {Ret(p) : p \in PagesOf(items)} ELSE {})

\* spotify_client.search(artist_name, type='artist')
FetchSpotifyArtists ==
    {PyDict([id |-> PyStr("sp1"), name |-> PyStr("Test"),
             images |-> PyList(<<PyDict([url |-> PyStr("u")])>>)]),
     PyDict([name |-> PyStr("Test"),
             images |-> PyList(<<PyDict([url |-> PyStr("u")])>>)]),
     PyDict([id |-> PyStr("sp1"), name |-> PyStr("Test")])}

SearchOutcomes ==
    {Raise(ClientError), Ret(EmptyDict),
     Ret(PyDict([artists |-> PyDict([items |-> PyList(<<>>)])]))}
    \cup {Ret(PyDict([artists |-> PyDict([items |-> PyList(<<a>>)])])) :
            a \in FetchSpotifyArtists}

\* spotify_client.artist_related_artists(id)
RelatedArtistsOutcomes ==
    {Raise(ClientError), Ret(EmptyDict),
     Ret(PyDict([artists |-> PyList(<<PyDict([name |-> PyStr("R")])>>)]))}

\* spotify_client.audio_features(id)
AudioFeaturesOutcomes ==
    {Raise(ClientError), Ret(PyNone), Ret(PyList(<<PyNone>>)),
     Ret(PyList(<<PyDict([id |-> PyStr("t1"), tempo |-> PyInt(120)])>>))}

\* genius_client.search_artist(...): what artist.to_dict() gives when an
\* artist is returned
FetchGeniusArtists ==
    {PyDict([id |-> PyInt(1), name |-> PyStr("Test")]),
     PyDict([id |-> PyInt(1), name |-> PyStr("Test"),
             songs |-> PyList(<<PyDict([id |-> PyInt(10), title |-> PyStr("A"),
                 primary_artist |-> PyDict([name |-> PyStr("Test")]),
                 primary_artists |-> PyList(<<PyDict([name |-> PyStr("Test")]),
                                              PyDict([name |-> PyStr("Feat")])>>)]),
                                  EmptyDict>>)]),
     PyDict([id |-> PyInt(1), name |-> PyStr("Test"),
             songs |-> PyList(<<PyDict([id |-> PyInt(10)]), PyStr("x")>>)]),
     PyDict([id |-> PyInt(1), name |-> PyStr("Test"), songs |-> PyInt(0)]),
     PyDict([id |-> PyInt(2), name |-> PyStr("Other")]),
     PyDict([id |-> PyInt(3)])}

GeniusSearchOutcomes ==
    {Raise(ClientError), Ret(PyNone)} \cup {Ret(a) : a \in FetchGeniusArtists}

-----------------------------------------------------------------------------
(* spotify_extract.py: search, pagination, orchestrator *)

\* spotify_artist_search, `found` being the outcome of spotify_client.search
spotify_artist_search(found) ==
    IF Raised(found) THEN found
    ELSE LET items == safe_extract(found.ok, <<"artists", "items">>, PyNone) IN
         IF Raised(items) THEN items
         ELSE IF Truthy(items.ok) THEN Index0(items.ok)
         ELSE Raise(Exc("ValueError", <<"No artist found with the name">>))

\* {item['id']: item for item in items}: an insertion-ordered dict, a repeated
\* id keeping its first position and taking the later item
\* d[item['id']] = item on the dict built so far
dict_put(acc, item) ==
    LET hit == {j \in 1..Len(acc) : acc[j].dict.id = item.dict.id} IN
    IF hit = {} THEN Append(acc, item)
    ELSE [j \in 1..Len(acc) |-> IF j \in hit THEN item ELSE acc[j]]

\* the comprehension assigns the items one after the other, each assignment
\* made on the value the dict has by then
RECURSIVE dict_by_id(_, _, _)
dict_by_id(items, i, acc) ==
    IF i > Len(items) THEN acc
    ELSE dict_by_id(items, i + 1,
                    CHOOSE after \in {dict_put(before, items[i]) : before \in {acc}} : TRUE)

RECURSIVE dict_by_id_FirstWins(_, _, _)
dict_by_id_FirstWins(items, i, acc) ==
    IF i > Len(items) THEN acc
    ELSE dict_by_id_FirstWins(items, i + 1,
            IF \E j \in 1..Len(acc) : acc[j].dict.id = items[i].dict.id
            THEN acc ELSE Append(acc, items[i]))

unique_albums_FirstWins(items) ==
    IF \E i \in 1..Len(items) : "id" \notin DOMAIN items[i].dict
    THEN Raise(Exc("KeyError", <<"id">>))
    ELSE Ret(dict_by_id_FirstWins(items, 1, <<>>))

\* list({album['id']: album for album in albums}.values()); album['id'] raises
\* KeyError on an album without id
unique_albums(items) ==
    IF \E i \in 1..Len(items) : "id" \notin DOMAIN items[i].dict
    THEN Raise(Exc("KeyError", <<"id">>))
    ELSE Ret(dict_by_id(items, 1, <<>>))

album_tracks_Deduplicated(items) == dict_by_id(items, 1, <<>>)

\* get_album_tracks returns its accumulator as it is
album_tracks(items) == items

\* [{**track, 'spotify_album_id': album_id} for track in tracks]
with_album_id(items, album_id) ==
    [i \in 1..Len(items) |->
        dict_update(items[i], PyDict([spotify_album_id |-> album_id]))]

HasNext_IgnoreMarker(page) == page # PyNone

\* `while results:` is entered and `if results['next']:` holds
HasNext(page) == IF page = PyNone THEN FALSE ELSE page.next

\* the locals of a pagination loop once its function has returned to its caller
LoopLocalsGone == results' = PyNone /\ albums' = <<>> /\ tracks' = <<>> /\ visited' = <<>>

\* the call raises e: it reaches the caller of the entry function unchanged
SpotifyRaises(e) == pc' = "raised" /\ result' = Raise(e)

\* get_artist_albums: albums = [], results = spotify_client.artist_albums(...)
ArtistAlbumsCall ==
    /\ pc = "get_artist_albums"
    /\ \E o \in FirstPageOutcomes(AlbumPageItems(1)) :
          /\ calls' = Append(calls, [op |-> "artist_albums", ok |-> Returned(o)])
          /\ IF Raised(o)
             THEN SpotifyRaises(o.raise) /\ UNCHANGED <<results, visited>>
             ELSE /\ results' = o.ok
                  /\ visited' = IF o.ok = PyNone THEN <<>> ELSE <<o.ok>>
                  /\ pc' = "albums_loop"
                  /\ UNCHANGED result
    /\ albums' = <<>>
    /\ steps' = IF InFetch THEN Append(steps, "build_tracks") ELSE steps
    /\ UNCHANGED <<tracks, accessorVars, flattenVars, buildVars, entry, artist,
                   artist_data, artist_albums, album_idx, all_tracks, track_idx,
                   spotify_artist_tracks>>

\* one turn of the loop that fetches a further page:
\* albums.extend(results['items']); results = spotify_client.next(results)
ArtistAlbumsNextPage ==
    /\ pc = "albums_loop"
    /\ HasNext(results)
    /\ albums' = albums \o results.items
    /\ \E o \in NextPageOutcomes(AlbumPageItems(Len(visited) + 1), Len(visited)) :
          /\ calls' = Append(calls, [op |-> "albums_next", ok |-> Returned(o)])
          /\ IF Raised(o)
             THEN SpotifyRaises(o.raise) /\ UNCHANGED <<results, visited>>
             ELSE /\ results' = o.ok
                  /\ visited' = IF o.ok = PyNone THEN visited ELSE Append(visited, o.ok)
                  /\ UNCHANGED <<pc, result>>
    /\ UNCHANGED <<tracks, accessorVars, flattenVars, buildVars, entry, steps, artist,
                   artist_data, artist_albums, album_idx, all_tracks, track_idx,
                   spotify_artist_tracks>>

\* the loop ends (no page, or a last page with no next marker); the function
\* removes duplicates and returns, to get_all_tracks_of_artist during a fetch
ArtistAlbumsReturn ==
    /\ pc = "albums_loop"
    /\ ~HasNext(results)
    /\ LET extended == IF results = PyNone THEN albums ELSE albums \o results.items
           unique == unique_albums(extended)
       IN
       IF Raised(unique)
       THEN /\ SpotifyRaises(unique.raise)
            /\ albums' = extended
            /\ UNCHANGED <<results, tracks, visited, artist_albums, album_idx, all_tracks>>
       ELSE IF InFetch
       THEN /\ pc' = "for_album"
            /\ artist_albums' = unique.ok
            /\ album_idx' = 0
            /\ all_tracks' = <<>>
            /\ LoopLocalsGone
            /\ UNCHANGED result
       ELSE /\ pc' = "albums_done"
            /\ result' = unique
            /\ albums' = extended
            /\ UNCHANGED <<results, tracks, visited, artist_albums, album_idx, all_tracks>>
    /\ UNCHANGED <<accessorVars, flattenVars, buildVars, entry, calls, steps, artist,
                   artist_data, track_idx, spotify_artist_tracks>>

\* get_album_tracks: tracks = [], results = spotify_client.album_tracks(album_id)
AlbumTracksCall ==
    /\ pc = "get_album_tracks"
    /\ \E o \in FirstPageOutcomes(TrackPageItems(1)) :
          /\ calls' = Append(calls, [op |-> "album_tracks", ok |-> Returned(o)])
          /\ IF Raised(o)
             THEN SpotifyRaises(o.raise) /\ UNCHANGED <<results, visited>>
             ELSE /\ results' = o.ok
                  /\ visited' = IF o.ok = PyNone THEN <<>> ELSE <<o.ok>>
                  /\ pc' = "tracks_loop"
                  /\ UNCHANGED result
    /\ tracks' = <<>>
    /\ UNCHANGED <<albums, accessorVars, flattenVars, buildVars, entry, steps, artist,
                   artist_data, artist_albums, album_idx, all_tracks, track_idx,
                   spotify_artist_tracks>>

\* tracks.extend(results['items']); results = spotify_client.next(results)
AlbumTracksNextPage ==
    /\ pc = "tracks_loop"
    /\ HasNext(results)
    /\ tracks' = tracks \o results.items
    /\ \E o \in NextPageOutcomes(TrackPageItems(Len(visited) + 1), Len(visited)) :
          /\ calls' = Append(calls, [op |-> "tracks_next", ok |-> Returned(o)])
          /\ IF Raised(o)
             THEN SpotifyRaises(o.raise) /\ UNCHANGED <<results, visited>>
             ELSE /\ results' = o.ok
                  /\ visited' = IF o.ok = PyNone THEN visited ELSE Append(visited, o.ok)
                  /\ UNCHANGED <<pc, result>>
    /\ UNCHANGED <<albums, accessorVars, flattenVars, buildVars, entry, steps, artist,
                   artist_data, artist_albums, album_idx, all_tracks, track_idx,
                   spotify_artist_tracks>>

\* the loop ends and the function returns its accumulator; during a fetch
\* get_all_tracks_of_artist tags the tracks with the album id and keeps them
AlbumTracksReturn ==
    /\ pc = "tracks_loop"
    /\ ~HasNext(results)
    /\ LET extended == IF results = PyNone THEN tracks ELSE tracks \o results.items
           returned == album_tracks(extended)
       IN
       IF InFetch
       THEN /\ pc' = "for_album"
            /\ all_tracks' = all_tracks \o
                   with_album_id(returned, Field(artist_albums[album_idx], "id"))
            /\ LoopLocalsGone
            /\ UNCHANGED result
       ELSE /\ pc' = "tracks_done"
            /\ result' = Ret(returned)
            /\ tracks' = extended
            /\ UNCHANGED <<results, albums, visited, all_tracks>>
    /\ UNCHANGED <<accessorVars, flattenVars, buildVars, entry, calls, steps, artist,
                   artist_data, artist_albums, album_idx, track_idx,
                   spotify_artist_tracks>>

PaginateInit ==
    /\ entry \in {"get_artist_albums", "get_album_tracks"}
    /\ pc = entry
    /\ results = PyNone /\ albums = <<>> /\ tracks = <<>> /\ visited = <<>>
    /\ calls = <<>> /\ steps = <<>>
    /\ artist = Unused /\ artist_data = Unused
    /\ artist_albums = Unused /\ album_idx = Unused /\ all_tracks = Unused
    /\ track_idx = Unused /\ spotify_artist_tracks = Unused
    /\ result = Unused
    /\ AccessorUnused /\ FlattenUnused /\ BuildUnused

PaginateNext ==
    \/ ArtistAlbumsCall \/ ArtistAlbumsNextPage \/ ArtistAlbumsReturn
    \/ AlbumTracksCall \/ AlbumTracksNextPage \/ AlbumTracksReturn

SpecPaginate == PaginateInit /\ [][PaginateNext]_vars

-----------------------------------------------------------------------------
(* Claims about the pagination loops *)

\* every item of the pages returned by the provider, in page order
RECURSIVE ItemsOf(_, _)
ItemsOf(pages, n) == IF n = 0 THEN <<>> ELSE ItemsOf(pages, n - 1) \o pages[n].items

AllItems == ItemsOf(visited, Len(visited))

IdsOf(items) == {items[i].dict.id : i \in 1..Len(items)}

LastIndexOf(items, id) ==
    CHOOSE i \in 1..Len(items) :
        /\ items[i].dict.id = id
        /\ \A j \in (i + 1)..Len(items) : items[j].dict.id # id

\* C7: get_artist_albums returns exactly one item per distinct album id seen on
\* any page (none missing, none twice), and for an id seen several times the
\* item returned is the last one seen (the one of the latest page).
C7_AlbumsUniqueLastWins ==
    (pc = "albums_done") =>
        LET out == result.ok IN
        /\ IdsOf(out) = IdsOf(AllItems)
        /\ \A i, j \in 1..Len(out) : out[i].dict.id = out[j].dict.id => i = j
        /\ \A i \in 1..Len(out) : out[i] = AllItems[LastIndexOf(AllItems, out[i].dict.id)]

\* three pages, an id delivered by page 1 and again by page 3: the returned
\* list holds the page-3 item
C7_Witness ==
    /\ pc = "albums_done"
    /\ Len(visited) = 3
    /\ \E i \in 1..Len(visited[1].items), k \in 1..Len(visited[3].items) :
          /\ visited[1].items[i].dict.id = visited[3].items[k].dict.id
          /\ \E n \in 1..Len(result.ok) : result.ok[n] = visited[3].items[k]
    /\ Cardinality(IdsOf(AllItems)) = 2

\* C8 as stated: get_album_tracks returns no two items with the same id, an id
\* seen on several pages being represented by its last-seen item.
C8_TracksDeduplicated ==
    (pc = "tracks_done") =>
        LET out == result.ok IN
        /\ \A i, j \in 1..Len(out) : out[i].dict.id = out[j].dict.id => i = j
        /\ \A i \in 1..Len(out) : out[i] = AllItems[LastIndexOf(AllItems, out[i].dict.id)]

\* C8 amended: get_album_tracks does not deduplicate: it returns every item of
\* every page it visited, in page order, repeated ids included.
C8_TracksAllItemsKept ==
    (pc = "tracks_done") => result = Ret(AllItems)

\* a track id delivered by two pages is returned twice
C8_Witness ==
    /\ pc = "tracks_done"
    /\ Len(visited) >= 2
    /\ \E i, j \in 1..Len(result.ok) :
          /\ i # j
          /\ result.ok[i].dict.id = result.ok[j].dict.id
          /\ result.ok[i].dict.page # result.ok[j].dict.page

-----------------------------------------------------------------------------
(* genius_extract.py: search and orchestrator *)

GeniusErrorTypes == {"GeniusAPIError", "ArtistNotFoundError", "TrackDataError"}

ArtistNotFound == Exc("ArtistNotFoundError", <<"Artist not found on Genius.">>)

genius_api_error_NoMessage(e) ==
    Raise([type |-> "GeniusAPIError",
           msg |-> <<"Error fetching artist from Genius API">>, context |-> e])

\* raise GeniusAPIError(f"Error fetching artist ... from Genius API: {str(e)}")
genius_api_error(e) ==
    Raise(Wrap("GeniusAPIError", "Error fetching artist from Genius API", e))

\* the body of the try of genius_artist_search, `found` being the outcome of
\* genius_client.search_artist
genius_artist_search_try(found) ==
    IF Raised(found) THEN found
    ELSE IF ~Truthy(found.ok) THEN Raise(ArtistNotFound)
    ELSE IF Field(found.ok, "name") # PyStr(ArtistName) THEN Raise(ArtistNotFound)
    ELSE found

\* genius_artist_search: `except Exception` catches whatever its try raises,
\* the ArtistNotFoundError raised inside it included
genius_artist_search(found) ==
    LET body == genius_artist_search_try(found) IN
    IF Raised(body) THEN genius_api_error(body.raise) ELSE body

\* the except clauses of fetch_genius_artist_data
fetch_genius_except(e) ==
    IF e.type \in GeniusErrorTypes THEN Raise(e)
    ELSE Raise(Wrap("GeniusAPIError", "Unexpected error", e))

\* the dictionary fetch_genius_artist_data returns
genius_fetch_result(genius_artist_data) ==
    Ret(PyDict([
        artist_data |-> dict_pop(genius_artist_data, "genius_tracks"),
        artist_tracks |-> FieldOr(genius_artist_data, "genius_tracks", EmptyDict)]))

\* the exception at the origin of e: the one raised first
RECURSIVE Root(_)
Root(e) == IF "context" \in DOMAIN e THEN Root(e.context) ELSE e

IsGenius == entry = "fetch_genius_artist_data"

GeniusRaises(e) == pc' = "raised" /\ result' = fetch_genius_except(e)

\* genius_artist = genius_artist_search(genius_client, artist_name, n_tracks)
GeniusSearch ==
    /\ pc = "start" /\ IsGenius
    /\ \E o \in GeniusSearchOutcomes :
          /\ calls' = Append(calls, [op |-> "search", ok |-> Returned(o)])
          /\ LET found == genius_artist_search(o) IN
             IF Raised(found)
             THEN /\ GeniusRaises(found.raise)
                  /\ artist' = IF Returned(o) THEN o.ok ELSE artist
             ELSE /\ pc' = "build_artist"
                  /\ artist' = found.ok
                  /\ UNCHANGED result
    /\ steps' = Append(steps, "search")
    /\ UNCHANGED <<accessorVars, flattenVars, pageVars, buildVars, entry, artist_data,
                   artist_albums, album_idx, all_tracks, track_idx,
                   spotify_artist_tracks>>

\* genius_artist_data = build_genius_artist_data(genius_artist): the artist
\* fields, then the track records
GeniusBuild ==
    /\ pc = "build_artist" /\ IsGenius
    /\ LET built == build_genius_artist_data(artist) IN
       IF Raised(built)
       THEN GeniusRaises(built.raise) /\ UNCHANGED artist_data
       ELSE pc' = "return" /\ artist_data' = built.ok /\ UNCHANGED result
    /\ steps' = steps \o <<"build_artist", "build_tracks">>
    /\ UNCHANGED <<accessorVars, flattenVars, pageVars, buildVars, entry, calls, artist,
                   artist_albums, album_idx, all_tracks, track_idx,
                   spotify_artist_tracks>>

GeniusReturn ==
    /\ pc = "return" /\ IsGenius
    /\ pc' = "returned"
    /\ result' = genius_fetch_result(artist_data)
    /\ steps' = Append(steps, "return")
    /\ UNCHANGED <<accessorVars, flattenVars, pageVars, buildVars, entry, calls, artist,
                   artist_data, artist_albums, album_idx, all_tracks, track_idx,
                   spotify_artist_tracks>>

-----------------------------------------------------------------------------
(* spotify_extract.py: the orchestrator *)

\* [flat_nested_dictionary(track, 'track_audio_features_spotify') for track in ...]
flattened(entries) ==
    [i \in 1..Len(entries) |->
        flat_nested_dictionary(entries[i], "track_audio_features_spotify").ok]

\* spotify_artist_search_result = spotify_artist_search(spotify_client, artist_name)
SpotifySearch ==
    /\ pc = "start" /\ InFetch
    /\ \E o \in SearchOutcomes :
          /\ calls' = Append(calls, [op |-> "search", ok |-> Returned(o)])
          /\ LET found == spotify_artist_search(o) IN
             IF Raised(found)
             THEN SpotifyRaises(found.raise) /\ UNCHANGED artist
             ELSE pc' = "build_artist" /\ artist' = found.ok /\ UNCHANGED result
    /\ steps' = Append(steps, "search")
    /\ UNCHANGED <<accessorVars, flattenVars, pageVars, buildVars, entry, artist_data,
                   artist_albums, album_idx, all_tracks, track_idx,
                   spotify_artist_tracks>>

\* spotify_artist_data = build_spotify_artist_data(...): the provider is asked
\* for the related artists only when the entries before it were evaluated
SpotifyBuildArtist ==
    /\ pc = "build_artist" /\ InFetch
    /\ LET before == spotify_artist_image_url(artist) IN
       IF Raised(before)
       THEN SpotifyRaises(before.raise) /\ UNCHANGED <<calls, artist_data>>
       ELSE \E o \in RelatedArtistsOutcomes :
              /\ calls' = Append(calls, [op |-> "artist_related_artists",
                                         ok |-> Returned(o)])
              /\ LET built == build_spotify_artist_data(artist, o) IN
                 IF Raised(built)
                 THEN SpotifyRaises(built.raise) /\ UNCHANGED artist_data
                 ELSE /\ pc' = "get_artist_albums"
                      /\ artist_data' = built.ok
                      /\ UNCHANGED result
    /\ steps' = Append(steps, "build_artist")
    /\ UNCHANGED <<accessorVars, flattenVars, pageVars, buildVars, entry, artist,
                   artist_albums, album_idx, all_tracks, track_idx,
                   spotify_artist_tracks>>

\* for album in albums: the next album, get_album_tracks is called for it
NextAlbum ==
    /\ pc = "for_album" /\ InFetch
    /\ album_idx < Len(artist_albums)
    /\ album_idx' = album_idx + 1
    /\ pc' = "get_album_tracks"
    /\ UNCHANGED <<result, accessorVars, flattenVars, pageVars, buildVars, entry, calls,
                   steps, artist, artist_data, artist_albums, all_tracks, track_idx,
                   spotify_artist_tracks>>

\* the albums are exhausted: get_all_tracks_of_artist returns all_tracks
AllTracksReturn ==
    /\ pc = "for_album" /\ InFetch
    /\ album_idx = Len(artist_albums)
    /\ pc' = "for_track"
    /\ track_idx' = 0
    /\ spotify_artist_tracks' = <<>>
    /\ UNCHANGED <<result, accessorVars, flattenVars, pageVars, buildVars, entry, calls,
                   steps, artist, artist_data, artist_albums, album_idx, all_tracks>>

\* for track in tracks: the entry of the next track is appended, the provider
\* being asked for its audio features when the track has an id
ProcessTrack ==
    /\ pc = "for_track" /\ InFetch
    /\ track_idx < Len(all_tracks)
    /\ LET track == all_tracks[track_idx + 1]
           id == Field(artist_data, "spotify_artist_id")
       IN
       \E o \in IF wants_audio_features(track) THEN AudioFeaturesOutcomes
                ELSE {Ret(PyNone)} :
          /\ calls' = IF wants_audio_features(track)
                      THEN Append(calls, [op |-> "audio_features", ok |-> Returned(o)])
                      ELSE calls
          /\ LET appended == spotify_track_entry(id, track, o) IN
             IF Raised(appended)
             THEN SpotifyRaises(appended.raise)
                  /\ UNCHANGED <<track_idx, spotify_artist_tracks>>
             ELSE /\ spotify_artist_tracks' = Append(spotify_artist_tracks, appended.ok)
                  /\ track_idx' = track_idx + 1
                  /\ UNCHANGED <<pc, result>>
    /\ UNCHANGED <<accessorVars, flattenVars, pageVars, buildVars, entry, steps, artist,
                   artist_data, artist_albums, album_idx, all_tracks>>

\* the tracks are exhausted: build_spotify_artist_tracks flattens the entries
\* and fetch_spotify_artist_data returns
SpotifyReturn ==
    /\ pc = "for_track" /\ InFetch
    /\ track_idx = Len(all_tracks)
    /\ pc' = "returned"
    /\ result' = Ret(PyDict([artist_data |-> artist_data,
                             artist_tracks |-> PyList(flattened(spotify_artist_tracks))]))
    /\ steps' = Append(steps, "return")
    /\ UNCHANGED <<accessorVars, flattenVars, pageVars, buildVars, entry, calls, artist,
                   artist_data, artist_albums, album_idx, all_tracks, track_idx,
                   spotify_artist_tracks>>

-----------------------------------------------------------------------------
(* The fetch orchestrators called with an artist name *)

Init ==
    /\ entry \in {"fetch_genius_artist_data", "fetch_spotify_artist_data"}
    /\ pc = "start"
    /\ results = PyNone /\ albums = <<>> /\ tracks = <<>> /\ visited = <<>>
    /\ calls = <<>> /\ steps = <<>>
    /\ artist = Unused /\ artist_data = Unused
    /\ artist_albums = <<>> /\ album_idx = 0 /\ all_tracks = <<>>
    /\ track_idx = 0 /\ spotify_artist_tracks = <<>>
    /\ result = Unused
    /\ AccessorUnused /\ FlattenUnused /\ BuildUnused

Next ==
    \/ GeniusSearch \/ GeniusBuild \/ GeniusReturn
    \/ SpotifySearch \/ SpotifyBuildArtist
    \/ ArtistAlbumsCall \/ ArtistAlbumsNextPage \/ ArtistAlbumsReturn
    \/ NextAlbum
    \/ AlbumTracksCall \/ AlbumTracksNextPage \/ AlbumTracksReturn
    \/ AllTracksReturn \/ ProcessTrack \/ SpotifyReturn

Spec == Init /\ [][Next]_vars

-----------------------------------------------------------------------------
(* Claims about the fetch orchestrators *)

\* the Genius search answered with no artist, or with one of another name
SearchFoundNoMatch ==
    /\ IsGenius
    /\ artist # Unused
    /\ \/ artist = PyNone
       \/ Field(artist, "name") # PyStr(ArtistName)

\* C1: in the Genius fetch path, whenever the search returns no artist or an
\* artist whose name differs from the queried name, the caller receives the
\* ArtistNotFoundError itself, unchanged and not converted into the generic
\* GeniusAPIError, and no record is returned.
C1_NotFoundPropagatesUnchanged ==
    SearchFoundNoMatch => (pc = "raised" /\ result = Raise(ArtistNotFound))

\* what does hold of the not-found case: the fetch raises and returns no
\* record, the ArtistNotFoundError being the cause kept by the GeniusAPIError
\* that reaches the caller
C1_NotFoundRaisesWrapped ==
    SearchFoundNoMatch =>
        /\ pc = "raised"
        /\ result.raise.type = "GeniusAPIError"
        /\ result.raise.context = ArtistNotFound

RawExceptionTypes ==
    {"ValueError", "KeyError", "TypeError", "AttributeError", "IndexError",
     "ConnectionError"}

RECURSIVE IsSuffix(_, _)
IsSuffix(s, t) ==
    IF Len(s) > Len(t) THEN FALSE
    ELSE IF Len(s) = Len(t) THEN s = t
    ELSE IsSuffix(s, Tail(t))

Stage(op) ==
    IF op = "search" THEN 1
    ELSE IF op = "artist_related_artists" THEN 2
    ELSE IF op \in {"artist_albums", "albums_next", "album_tracks", "tracks_next"} THEN 3
    ELSE 4

AllSteps == <<"search", "build_artist", "build_tracks", "return">>

\* a returned value is a fetch result only when every loop ran to its end
FetchCompleted ==
    /\ steps = AllSteps
    /\ \A i \in 1..Len(calls) : calls[i].ok
    /\ IsDict(result.ok)
    /\ DOMAIN result.ok.dict = {"artist_data", "artist_tracks"}
    /\ InFetch =>
          /\ album_idx = Len(artist_albums)
          /\ track_idx = Len(all_tracks)
          /\ Len(result.ok.dict.artist_tracks.list) = Len(all_tracks)
          /\ Cardinality({i \in 1..Len(calls) : calls[i].op = "audio_features"})
               = Cardinality({i \in 1..Len(all_tracks) :
                                 wants_audio_features(all_tracks[i])})

StepsInOrder ==
    /\ Len(steps) <= Len(AllSteps)
    /\ steps = SubSeq(AllSteps, 1, Len(steps))
    /\ \A i, j \in 1..Len(calls) : i < j => Stage(calls[i].op) <= Stage(calls[j].op)

SucceedsOrRaises ==
    /\ \A i \in 1..Len(calls) : ~calls[i].ok => (i = Len(calls) /\ pc = "raised")
    /\ (pc = "raised") => (Raised(result) /\ steps # AllSteps)
    /\ (pc = "returned") => (Returned(result) /\ FetchCompleted)
    /\ (pc \notin {"raised", "returned"}) => result = Unused

\* C3: each fetch orchestrator runs its steps in the order search, build
\* artist record, build track records, return; it returns a result only
\* after every step, page fetch and audio-feature call has succeeded; once a
\* step has failed no later provider call is made and nothing is returned.
C3_StepsInOrderAllOrNothing ==
    /\ [](StepsInOrder /\ SucceedsOrRaises)
    /\ [][(pc \in {"raised", "returned"}) => (UNCHANGED <<pc, result, calls, steps>>)]_vars
    /\ [][(calls' # calls) => (pc \notin {"raised", "returned"})]_vars

\* an audio-feature call fails after the search, the artist record, the pages
\* of albums and tracks and an earlier track succeeded: the fetch has raised
C3_Witness ==
    /\ pc = "raised" /\ InFetch
    /\ Len(calls) >= 6
    /\ calls[Len(calls)] = [op |-> "audio_features", ok |-> FALSE]
    /\ calls[Len(calls) - 1] = [op |-> "audio_features", ok |-> TRUE]
    /\ track_idx = 1
    /\ steps = <<"search", "build_artist", "build_tracks">>

-----------------------------------------------------------------------------
(* Claims about the value a fetch returns *)

\* the raw tracks of the provider response the fetch worked on
RawTracks ==
    IF IsGenius THEN PyIter(FieldOr(artist, "songs", EmptyDict)).ok ELSE all_tracks

\* the result is {artist_data, artist_tracks}: an artist record without the
\* embedded track list, and a list with one element per raw track
FetchResultShape ==
    /\ IsDict(result.ok)
    /\ DOMAIN result.ok.dict = {"artist_data", "artist_tracks"}
    /\ IsDict(result.ok.dict.artist_data)
    /\ "genius_tracks" \notin DOMAIN result.ok.dict.artist_data.dict
    /\ IsList(result.ok.dict.artist_tracks)
    /\ Len(result.ok.dict.artist_tracks.list) = Len(RawTracks)

\* C11: every value returned by a top-level fetch function is a mapping with
\* exactly the keys artist_data and artist_tracks, artist_data being a flat
\* artist record without the embedded track list and artist_tracks a list
\* whose every element is a track-record mapping, never None, one per raw
\* track, also when a raw track is an empty mapping.
C11_ResultIsRecordAndTrackRecords ==
    (pc = "returned") =>
        /\ FetchResultShape
        /\ \A i \in 1..Len(RawTracks) : IsDict(result.ok.dict.artist_tracks.list[i])

\* what does hold of the returned value: the shape, one element per raw
\* track, each a track record except None exactly for an empty raw track
C11_ShapeHoldsNoneForEmptyTrack ==
    (pc = "returned") =>
        /\ FetchResultShape
        /\ \A i \in 1..Len(RawTracks) :
              LET built == result.ok.dict.artist_tracks.list[i] IN
              IF IsGenius /\ RawTracks[i] = EmptyDict
              THEN built = PyNone
              ELSE IsDict(built)

-----------------------------------------------------------------------------
(* The pagination loops run to their end *)

\* a called function keeps executing: the loop takes its next step whenever
\* it has one
SpecPaginateLive == PaginateInit /\ [][PaginateNext]_vars /\ WF_vars(PaginateNext)

InLoop == pc \in {"albums_loop", "tracks_loop"}
LoopDone == pc \in {"albums_done", "tracks_done"}

\* the accumulator of the loop that is running or has returned
Accumulator == IF pc \in {"albums_loop", "albums_done"} THEN albums ELSE tracks

\* the provider calls made: one per page returned, and one more when the
\* last call returned no page
CallsMatchPages ==
    /\ Len(calls) = Len(visited) + (IF results = PyNone THEN 1 ELSE 0)
    /\ \A i \in 1..Len(calls) : calls[i].ok

\* a further page was requested only from pages that had a next-page marker
RequestedOnlyAfterMarker ==
    \A n \in 1..(Len(visited) - 1) : visited[n].next

\* inside the loop: the page held is the last one the provider returned, and
\* the accumulator holds the items of the pages before it, in page order
LoopInvariant ==
    InLoop =>
        /\ CallsMatchPages
        /\ RequestedOnlyAfterMarker
        /\ IF results = PyNone
           THEN Accumulator = AllItems
           ELSE /\ results = visited[Len(visited)]
                /\ Accumulator = ItemsOf(visited, Len(visited) - 1)

\* at the return: the loop stopped at a page without marker or at a call
\* that returned no page, and the accumulator holds every visited page
StoppedAtTerminalPage ==
    LoopDone =>
        /\ CallsMatchPages
        /\ RequestedOnlyAfterMarker
        /\ results = PyNone \/ (results = visited[Len(visited)] /\ ~results.next)
        /\ Accumulator = AllItems
        /\ \A i \in 1..Len(Accumulator) :
              \A j \in i..Len(Accumulator) :
                 Accumulator[i].dict.page.int <= Accumulator[j].dict.page.int

\* C12: the pagination loops of get_artist_albums and get_album_tracks visit
\* the pages in provider order and stop exactly at the first page without
\* next-page marker or when the next-page call returns no page: the loop
\* terminates, no page is requested after the terminal page, and the
\* accumulator holds the items of every visited page, in page order.
C12_LoopsVisitAllPagesAndStop ==
    /\ [](LoopInvariant /\ StoppedAtTerminalPage)
    /\ [][LoopDone => UNCHANGED <<calls, visited, albums, tracks>>]_vars
    /\ <>(LoopDone \/ pc = "raised")

\* three pages visited, the first two with a marker and the third without:
\* the loop has returned with the items of the three pages
C12_Witness ==
    /\ pc = "tracks_done"
    /\ Len(visited) = 3
    /\ visited[1].next /\ visited[2].next /\ ~visited[3].next
    /\ Len(calls) = 3
    /\ \A n \in 1..3 : Len(visited[n].items) = MaxPageLen
    /\ tracks = visited[1].items \o visited[2].items \o visited[3].items

=============================================================================
